---- MODULE Spec2Model ----
(***************************************************************************)
(* BlockDrop: the falling-block engine (GameEngine, Grid, Tetrimino, Orb)  *)
(* driven through the commands of GameViewModel.                             *)
(*                                                                         *)
(* Engine methods are operators from an engine record to an engine record; *)
(* the actions are the view-model commands, the gravity tick of the game   *)
(* loop and the passing of wall-clock time.                                *)
(***************************************************************************)
EXTENDS Integers, Sequences, FiniteSets, TLC

VARIABLES
    grid,               \* Grid: [cells, colorMap, orbs]
    currentTetrimino,   \* Tetrimino?  (<<>> is null, <<t>> is t)
    nextTetrimino,      \* Tetrimino?
    gameState,          \* GameState
    score,
    multiplier,
    level,
    multiplierEndTime,
    ghostPosition,      \* Position?
    generated,          \* generateRandomTetrimino() calls so far
    now,                \* System.currentTimeMillis()
    locks,              \* lockTetrimino() calls since the initial state
    games,              \* startGame() calls so far
    gameLoopJob,        \* GameViewModel.gameLoopJob: Job?  (<<>> is null)
    jobs,               \* the launched loop jobs that are active
    dropSpeed,          \* GameViewModel.dropSpeed
    stateSeen,          \* the GameState last delivered to the state collector
    levelSeen,          \* the level last delivered to the level collector
    moveDownAt,         \* gameState when the loop last called moveDown()
    currency,           \* towerdefense: gameState.currency
    wave,               \* towerdefense: gameState.wave
    upgrades,           \* towerdefense: upgrades[type].level
    kills               \* towerdefense: enemies killed since the initial state

engine == <<grid, currentTetrimino, nextTetrimino, gameState, score,
            multiplier, level, multiplierEndTime, ghostPosition, generated>>
vars == <<grid, currentTetrimino, nextTetrimino, gameState, score,
          multiplier, level, multiplierEndTime, ghostPosition, generated,
          now, locks, games,
          gameLoopJob, jobs, dropSpeed, stateSeen, levelSeen, moveDownAt,
          currency, wave, upgrades, kills>>
\* GameViewModel's loop fields and the observations of its two collectors.
loop == <<gameLoopJob, jobs, dropSpeed, stateSeen, levelSeen, moveDownAt>>
\* The tower-defense page's state.
shop == <<currency, wave, upgrades, kills>>

----------------------------------------------------------------------------
(* Program constants *)

width == 10
height == 20
\* Fault: the orb limit is off by one.
maxOrbsOffByOne == 4 + 1
maxOrbs == 4
multiplierDuration == 10000
spawnX == 4
spawnY == 0
orbFreeRows == 4
bombRadius == 1
bombPoints == 500
lineClearPoints == 200
pointsPerLevel == 2000

(* Bounds of the model *)

MaxLocks == 1
MaxGames == 1
Fall == 11
ClockStep == 6000
MaxClock == 18001

None == <<>>
Some(v) == <<v>>
IsSome(o) == o # <<>>
Get(o) == o[1]

\* F applied to the value of x, with x evaluated once.
With(x, F(_)) == CHOOSE r \in {F(v) : v \in {x}} : TRUE

Position(x, y) == [x |-> x, y |-> y]

\* Kotlin Int: score, multiplier and level are 32-bit, and + and * wrap.
MaxInt == 2147483647
MinInt == -MaxInt - 1

AddWrap(a, b) ==
    IF a >= 0 /\ b >= 0 /\ a > MaxInt - b
    THEN ((a - MaxInt) - 1) + ((b - MaxInt) - 1)
    ELSE IF a < 0 /\ b < 0 /\ a < MinInt - b
    THEN ((a + MaxInt) + 1) + ((b + MaxInt) + 1)
    ELSE a + b

NegWrap(a) == IF a = MinInt THEN a ELSE -a

RECURSIVE MulWrap(_, _)
MulWrap(a, b) ==
    IF b = 0 THEN 0
    ELSE IF b = 1 THEN a
    ELSE IF b = -1 THEN NegWrap(a)
    ELSE With(MulWrap(a, b \div 2), LAMBDA h :
         With(AddWrap(h, h), LAMBDA d :
             IF b % 2 = 1 THEN AddWrap(d, a) ELSE d))

\* Int division, truncated toward zero.
TruncDiv(a, b) == IF a >= 0 THEN a \div b ELSE -((-a) \div b)

TetriminoTypes == {"I", "O", "T", "L", "J", "S", "Z"}
PowerUpTypes == {"BOMB", "LINE_CLEAR", "GHOST"}
NoPowerUp == "null"
GameStates == {"NotStarted", "Running", "Paused", "GameOver"}

Range(s) == With(s, LAMBDA v : {v[k] : k \in 1..Len(v)})
AllOf(s, P(_)) == \E v \in {s} : \A k \in 1..Len(v) : P(v[k])

----------------------------------------------------------------------------
(* Tetrimino *)

\* piece tells the pieces apart: the number of the generateRandomTetrimino()
\* call that made the tetrimino; the copies made by moves and rotations keep it.
Tetrimino(type, powerUp, piece) ==
    [type |-> type, position |-> Position(spawnX, spawnY), rotation |-> 0,
     powerUp |-> powerUp, piece |-> piece]

getShape(type, rotation) ==
    CASE type = "I" ->
            IF rotation % 2 = 0
            THEN << <<0, 0, 0, 0>>,
                    <<1, 1, 1, 1>>,
                    <<0, 0, 0, 0>>,
                    <<0, 0, 0, 0>> >>
            ELSE << <<0, 0, 1, 0>>,
                    <<0, 0, 1, 0>>,
                    <<0, 0, 1, 0>>,
                    <<0, 0, 1, 0>> >>
      [] type = "O" ->
            << <<1, 1>>,
               <<1, 1>> >>
      [] type = "T" ->
            CASE rotation = 0 -> << <<0, 1, 0>>, <<1, 1, 1>>, <<0, 0, 0>> >>
              [] rotation = 1 -> << <<0, 1, 0>>, <<0, 1, 1>>, <<0, 1, 0>> >>
              [] rotation = 2 -> << <<0, 0, 0>>, <<1, 1, 1>>, <<0, 1, 0>> >>
              [] OTHER        -> << <<0, 1, 0>>, <<1, 1, 0>>, <<0, 1, 0>> >>
      [] type = "L" ->
            CASE rotation = 0 -> << <<0, 0, 1>>, <<1, 1, 1>>, <<0, 0, 0>> >>
              [] rotation = 1 -> << <<0, 1, 0>>, <<0, 1, 0>>, <<0, 1, 1>> >>
              [] rotation = 2 -> << <<0, 0, 0>>, <<1, 1, 1>>, <<1, 0, 0>> >>
              [] OTHER        -> << <<1, 1, 0>>, <<0, 1, 0>>, <<0, 1, 0>> >>
      [] type = "J" ->
            CASE rotation = 0 -> << <<1, 0, 0>>, <<1, 1, 1>>, <<0, 0, 0>> >>
              [] rotation = 1 -> << <<0, 1, 1>>, <<0, 1, 0>>, <<0, 1, 0>> >>
              [] rotation = 2 -> << <<0, 0, 0>>, <<1, 1, 1>>, <<0, 0, 1>> >>
              [] OTHER        -> << <<0, 1, 0>>, <<0, 1, 0>>, <<1, 1, 0>> >>
      [] type = "S" ->
            IF rotation % 2 = 0
            THEN << <<0, 1, 1>>, <<1, 1, 0>>, <<0, 0, 0>> >>
            ELSE << <<0, 1, 0>>, <<0, 1, 1>>, <<0, 0, 1>> >>
      [] type = "Z" ->
            IF rotation % 2 = 0
            THEN << <<1, 1, 0>>, <<0, 1, 1>>, <<0, 0, 0>> >>
            ELSE << <<0, 0, 1>>, <<0, 1, 1>>, <<0, 1, 0>> >>

\* Fault: the loop over the rows of the shape stops one row early.
shapeOffsetsShort(shape) ==
    With(shape, LAMBDA sh :
        SelectSeq([k \in 1..((Len(sh) - 1) * Len(sh[1])) |->
                      [dx |-> (k - 1) % Len(sh[1]), dy |-> (k - 1) \div Len(sh[1])]],
                  LAMBDA c : sh[c.dy + 1][c.dx + 1] = 1))

\* The filled cells of a shape as offsets, in the order the nested loops of
\* getBlocks visit them: row by row, left to right.
shapeOffsets(shape) ==
    With(shape, LAMBDA sh :
        SelectSeq([k \in 1..(Len(sh) * Len(sh[1])) |->
                      [dx |-> (k - 1) % Len(sh[1]), dy |-> (k - 1) \div Len(sh[1])]],
                  LAMBDA c : sh[c.dy + 1][c.dx + 1] = 1))

\* shapeOffsets(getShape(type, rotation)), tabulated.
offsetTable ==
    [type \in TetriminoTypes |-> [rotation \in 0..3 |->
        shapeOffsets(getShape(type, rotation))]]

getBlocks(t) ==
    With(t, LAMBDA tv :
        With(offsetTable[tv.type][tv.rotation], LAMBDA offs :
            [k \in 1..Len(offs) |->
                Position(tv.position.x + offs[k].dx, tv.position.y + offs[k].dy)]))

TmoveLeft(t)  == [t EXCEPT !.position.x = @ - 1]
TmoveRight(t) == [t EXCEPT !.position.x = @ + 1]
TmoveDown(t)  == [t EXCEPT !.position.y = @ + 1]
Trotate(t)    == [t EXCEPT !.rotation = (@ + 1) % 4]

----------------------------------------------------------------------------
(* Orb *)

OrbTypeMultiplier(type) ==
    CASE type = "SMALL" -> 2 [] type = "MEDIUM" -> 3 [] type = "LARGE" -> 5

Orb(position, mult, type) ==
    [position |-> position, multiplier |-> mult, type |-> type]

\* Random.nextFloat() is drawn in hundredths: typeRoll stands for typeRoll/100.
orbTypeFor(typeRoll) ==
    IF typeRoll < 60 THEN "SMALL" ELSE IF typeRoll < 90 THEN "MEDIUM" ELSE "LARGE"

createRandom(position, typeRoll) ==
    Orb(position, OrbTypeMultiplier(orbTypeFor(typeRoll)), orbTypeFor(typeRoll))

----------------------------------------------------------------------------
(* Grid: [cells, colorMap, orbs].  cells[y][x] = 0 is empty, a positive    *)
(* value is the colour index; colorMap[i] is the colour (here the          *)
(* tetrimino type that owns it) of index i, nextColorIndex = Len + 1.      *)

EmptyRow == [x \in 0..(width - 1) |-> 0]
EmptyCells == [y \in 0..(height - 1) |-> EmptyRow]
NewGrid == [cells |-> EmptyCells, colorMap |-> <<>>, orbs |-> <<>>]

isInBounds(p) == p.x \in 0..(width - 1) /\ p.y \in 0..(height - 1)

isEmpty(g, p) == IF isInBounds(p) THEN g.cells[p.y][p.x] = 0 ELSE FALSE

canPlace(g, t) == AllOf(getBlocks(t), LAMBDA p : isEmpty(g, p))

\* The colour map after asking for the index of a colour.
getColorIndexMap(g, color) ==
    IF \E i \in 1..Len(g.colorMap) : g.colorMap[i] = color
    THEN g.colorMap
    ELSE Append(g.colorMap, color)

IndexOf(s, v) == CHOOSE i \in 1..Len(s) : s[i] = v /\ \A j \in 1..(i - 1) : s[j] # v

getColorIndex(g, color) == IndexOf(getColorIndexMap(g, color), color)

place(g, t) ==
    With(getColorIndex(g, t.type), LAMBDA colorIndex :
    With(Range(getBlocks(t)), LAMBDA blocks :
        [g EXCEPT
            !.colorMap = getColorIndexMap(g, t.type),
            !.cells = [y \in 0..(height - 1) |-> [x \in 0..(width - 1) |->
                          IF Position(x, y) \in blocks THEN colorIndex
                          ELSE g.cells[y][x]]]]))

isLineComplete(g, y) == \A x \in 0..(width - 1) : g.cells[y][x] > 0

clearLine(g, y) == [g EXCEPT !.cells[y] = EmptyRow]

clearCell(g, p) == IF isInBounds(p) THEN [g EXCEPT !.cells[p.y][p.x] = 0] ELSE g

\* orbs.forEach { ... orbs[orbs.indexOf(orb)] = moved orb }: the k-th step reads
\* the list as the earlier steps left it.
RECURSIVE shiftOrbsDownFrom(_, _, _)
\* Fault: the orbs of the cleared row are moved down too.
shiftOrbsDownFromCleared(orbs, k, clearedY) ==
    IF k > Len(orbs) THEN orbs
    ELSE IF orbs[k].position.y <= clearedY
         THEN With([orbs EXCEPT ![IndexOf(orbs, orbs[k])] =
                       Orb(Position(orbs[k].position.x, orbs[k].position.y + 1),
                           orbs[k].multiplier, orbs[k].type)],
                   LAMBDA moved : shiftOrbsDownFrom(moved, k + 1, clearedY))
         ELSE shiftOrbsDownFrom(orbs, k + 1, clearedY)

shiftOrbsDownFrom(orbs, k, clearedY) ==
    IF k > Len(orbs) THEN orbs
    ELSE IF orbs[k].position.y < clearedY
         THEN With([orbs EXCEPT ![IndexOf(orbs, orbs[k])] =
                       Orb(Position(orbs[k].position.x, orbs[k].position.y + 1),
                           orbs[k].multiplier, orbs[k].type)],
                   LAMBDA moved : shiftOrbsDownFrom(moved, k + 1, clearedY))
         ELSE shiftOrbsDownFrom(orbs, k + 1, clearedY)

shiftOrbsDown(g, clearedY) == [g EXCEPT !.orbs = shiftOrbsDownFrom(g.orbs, 1, clearedY)]

\* Fault: the shift stops one row short and leaves the cleared row empty.
shiftLinesDownShort(g, clearedY) ==
    With([g EXCEPT !.cells = [y \in 0..(height - 1) |->
             IF y = 0 THEN EmptyRow
             ELSE IF y < clearedY THEN g.cells[y - 1]
             ELSE g.cells[y]]],
         LAMBDA moved : shiftOrbsDown(moved, clearedY))

shiftLinesDown(g, clearedY) ==
    With([g EXCEPT !.cells = [y \in 0..(height - 1) |->
             IF y = 0 THEN EmptyRow
             ELSE IF y <= clearedY THEN g.cells[y - 1]
             ELSE g.cells[y]]],
         LAMBDA moved : shiftOrbsDown(moved, clearedY))

isOrbAt(g, p) ==
    \E k \in 1..Len(g.orbs) : g.orbs[k].position.x = p.x /\ g.orbs[k].position.y = p.y

isGameOver(g) == \E x \in 0..(width - 1) : g.cells[0][x] > 0

reset(g) == NewGrid

\* nextInt(size) either hits the cell the draw prefers or is 0: the first cell
\* of the list, which is built row by row, left to right.
PickFrom(S, prefer) ==
    IF prefer \in S THEN prefer
    ELSE CHOOSE p \in S : \A q \in S : p.y < q.y \/ (p.y = q.y /\ p.x <= q.x)

\* The empty, orb-free cells below the top rows with y in lo..hi.
freePositions(g, lo, hi) ==
    {p \in {Position(x, y) : x \in 0..(width - 1), y \in lo..hi} :
        isEmpty(g, p) /\ ~isOrbAt(g, p)}

\* draw = [spawnRoll, halfRoll, prefer, typeRoll], rolls in hundredths.
trySpawnOrb(g, draw) ==
    IF Len(g.orbs) >= maxOrbs THEN g
    ELSE
    With((height + orbFreeRows) \div 2, LAMBDA midpoint :
    With(freePositions(g, orbFreeRows, midpoint - 1), LAMBDA upperHalfPositions :
    With(freePositions(g, midpoint, height - 1), LAMBDA lowerHalfPositions :
    With(IF lowerHalfPositions = {} /\ upperHalfPositions = {} THEN None
         ELSE IF lowerHalfPositions = {}
              THEN Some(PickFrom(upperHalfPositions, draw.prefer))
         ELSE IF upperHalfPositions = {}
              THEN Some(PickFrom(lowerHalfPositions, draw.prefer))
         ELSE IF draw.halfRoll < 75
              THEN Some(PickFrom(lowerHalfPositions, draw.prefer))
              ELSE Some(PickFrom(upperHalfPositions, draw.prefer)),
         LAMBDA position :
            IF IsSome(position)
            THEN [g EXCEPT !.orbs =
                     Append(g.orbs, createRandom(Get(position), draw.typeRoll))]
            ELSE g))))

RECURSIVE Product(_, _)
Product(s, k) == IF k = 0 THEN 1 ELSE MulWrap(Product(s, k - 1), s[k].multiplier)

\* The scan of clearLines: st = [g, y, linesCleared, totalMultiplier, orbsToRemove].
\* The loop steps y down to the next complete row, clears it and looks at the
\* same y again; it ends when no row from y up is complete.
RECURSIVE clearLinesScan(_)

\* Fault: the scan moves on to the row above after clearing a row.
clearLinesScanStep(st) ==
    IF \A y \in 0..st.y : ~isLineComplete(st.g, y) THEN [st EXCEPT !.y = -1]
    ELSE
    With(CHOOSE y \in 0..st.y :
            isLineComplete(st.g, y) /\ \A z \in (y + 1)..st.y : ~isLineComplete(st.g, z),
         LAMBDA y :
    With(SelectSeq(st.g.orbs, LAMBDA o : o.position.y = y), LAMBDA hit :
    With([g |-> shiftLinesDown(clearLine(st.g, y), y),
          y |-> y - 1,
          linesCleared |-> st.linesCleared + 1,
          totalMultiplier |-> MulWrap(st.totalMultiplier, Product(hit, Len(hit))),
          orbsToRemove |-> st.orbsToRemove \o hit],
         LAMBDA st1 : clearLinesScan(st1))))

clearLinesScan(st) ==
    IF \A y \in 0..st.y : ~isLineComplete(st.g, y) THEN [st EXCEPT !.y = -1]
    ELSE
    With(CHOOSE y \in 0..st.y :
            isLineComplete(st.g, y) /\ \A z \in (y + 1)..st.y : ~isLineComplete(st.g, z),
         LAMBDA y :
    With(SelectSeq(st.g.orbs, LAMBDA o : o.position.y = y), LAMBDA hit :
    With([g |-> shiftLinesDown(clearLine(st.g, y), y),
          y |-> y,
          linesCleared |-> st.linesCleared + 1,
          totalMultiplier |-> MulWrap(st.totalMultiplier, Product(hit, Len(hit))),
          orbsToRemove |-> st.orbsToRemove \o hit],
         LAMBDA st1 : clearLinesScan(st1))))

\* Returns [g, linesCleared, totalMultiplier].
clearLines(g, draw) ==
    With(clearLinesScan([g |-> g, y |-> height - 1, linesCleared |-> 0,
                         totalMultiplier |-> 1, orbsToRemove |-> <<>>]),
         LAMBDA st :
    With(Len(st.g.orbs) = maxOrbs, LAMBDA hadFourOrbs :
    With(Len(st.g.orbs) - Len(st.orbsToRemove) < maxOrbs, LAMBDA willHaveLessThanMax :
    With([st.g EXCEPT !.orbs =
             SelectSeq(st.g.orbs, LAMBDA o : o \notin Range(st.orbsToRemove))],
         LAMBDA removed :
    With(IF hadFourOrbs /\ willHaveLessThanMax THEN 50 ELSE 30, LAMBDA spawnChance :
        [g |-> IF Len(removed.orbs) < maxOrbs /\ draw.spawnRoll < spawnChance
               THEN trySpawnOrb(removed, draw)
               ELSE removed,
         linesCleared |-> st.linesCleared,
         totalMultiplier |-> st.totalMultiplier])))))

----------------------------------------------------------------------------
(* PowerUpType *)

\* Random.nextFloat() < chance with both sides in hundredths:
\* chance = (0.05 + level * 0.01).coerceAtMost(0.15).
powerUpChance(lvl) == IF 5 + lvl * 1 > 15 THEN 15 ELSE 5 + lvl * 1

shouldGeneratePowerUp(lvl, roll) == roll < powerUpChance(lvl)

----------------------------------------------------------------------------
(* GameEngine: e = [grid, currentTetrimino, nextTetrimino, gameState,      *)
(* score, multiplier, level, multiplierEndTime, ghostPosition, generated]. *)
(* The random draws a call consumes are passed in as rnd = [gen0, gen,     *)
(* orb] and the clock reading as t.                                        *)

NewEngine ==
    [grid |-> NewGrid, currentTetrimino |-> None, nextTetrimino |-> None,
     gameState |-> "NotStarted", score |-> 0, multiplier |-> 1, level |-> 1,
     multiplierEndTime |-> 0, ghostPosition |-> None, generated |-> 0]

\* d = [type, roll, powerUp]
generateRandomTetrimino(e, d) ==
    Tetrimino(d.type,
              IF shouldGeneratePowerUp(e.level, d.roll) THEN d.powerUp ELSE NoPowerUp,
              e.generated + 1)

\* Fault: isValidMove() checks occupancy for GHOST pieces too.
isValidMoveNoGhost(e, t) ==
    AllOf(getBlocks(t), LAMBDA p :
        p.y < height /\ p.x >= 0 /\ p.x < width
        /\ (p.y < 0 \/ isEmpty(e.grid, p)))

isValidMove(e, t) ==
    IF t.powerUp = "GHOST"
    THEN AllOf(getBlocks(t), LAMBDA p :
             p.y < height /\ p.x >= 0 /\ p.x < width)
    ELSE AllOf(getBlocks(t), LAMBDA p :
             p.y < height /\ p.x >= 0 /\ p.x < width
             /\ (p.y < 0 \/ isEmpty(e.grid, p)))

\* while (isValidMove(t.moveDown())) t = t.moveDown(): the loop leaves t moved
\* down by the number of its passes, the least d whose next move down is not
\* valid (a piece moved below the grid never is).
dropWhileValid(e, t) ==
    [t EXCEPT !.position.y = @ +
        (CHOOSE d \in 0..height :
            /\ ~isValidMove(e, [t EXCEPT !.position.y = @ + d + 1])
            /\ \A j \in 1..d : isValidMove(e, [t EXCEPT !.position.y = @ + j]))]

updateGhostPosition(e) ==
    IF IsSome(e.currentTetrimino)
    THEN [e EXCEPT !.ghostPosition =
             Some(dropWhileValid(e, Get(e.currentTetrimino)).position)]
    ELSE [e EXCEPT !.ghostPosition = None]

\* Fault: the spawn tests the new piece with isValidMove, which lets a GHOST
\* piece overlap filled cells.
spawnTetriminoValidMove(e, rnd) ==
    With(IF IsSome(e.nextTetrimino)
         THEN [e EXCEPT !.currentTetrimino = e.nextTetrimino]
         ELSE [e EXCEPT !.currentTetrimino = Some(generateRandomTetrimino(e, rnd.gen0)),
                        !.generated = @ + 1], LAMBDA e1 :
    With([e1 EXCEPT !.nextTetrimino = Some(generateRandomTetrimino(e1, rnd.gen)),
                    !.generated = @ + 1], LAMBDA e2 :
    With(updateGhostPosition(e2), LAMBDA e3 :
        IF IsSome(e3.currentTetrimino) /\ ~isValidMove(e3, Get(e3.currentTetrimino))
        THEN [e3 EXCEPT !.gameState = "GameOver"]
        ELSE e3)))

\* Fault: the spawn generates the next piece first and promotes that one.
spawnTetriminoNewest(e, rnd) ==
    With([e EXCEPT !.nextTetrimino = Some(generateRandomTetrimino(e, rnd.gen)),
                   !.generated = @ + 1], LAMBDA e1 :
    With([e1 EXCEPT !.currentTetrimino = e1.nextTetrimino], LAMBDA e2 :
    With(updateGhostPosition(e2), LAMBDA e3 :
        IF IsSome(e3.currentTetrimino) /\ ~canPlace(e3.grid, Get(e3.currentTetrimino))
        THEN [e3 EXCEPT !.gameState = "GameOver"]
        ELSE e3)))

\* Fault: spawnTetrimino() without the check that ends the game.
spawnTetriminoNoCheck(e, rnd) ==
    With(IF IsSome(e.nextTetrimino)
         THEN [e EXCEPT !.currentTetrimino = e.nextTetrimino]
         ELSE [e EXCEPT !.currentTetrimino = Some(generateRandomTetrimino(e, rnd.gen0)),
                        !.generated = @ + 1], LAMBDA e1 :
    With([e1 EXCEPT !.nextTetrimino = Some(generateRandomTetrimino(e1, rnd.gen)),
                    !.generated = @ + 1], LAMBDA e2 :
        updateGhostPosition(e2)))

spawnTetrimino(e, rnd) ==
    With(IF IsSome(e.nextTetrimino)
         THEN [e EXCEPT !.currentTetrimino = e.nextTetrimino]
         ELSE [e EXCEPT !.currentTetrimino = Some(generateRandomTetrimino(e, rnd.gen0)),
                        !.generated = @ + 1], LAMBDA e1 :
    With([e1 EXCEPT !.nextTetrimino = Some(generateRandomTetrimino(e1, rnd.gen)),
                    !.generated = @ + 1], LAMBDA e2 :
    With(updateGhostPosition(e2), LAMBDA e3 :
        IF IsSome(e3.currentTetrimino) /\ ~canPlace(e3.grid, Get(e3.currentTetrimino))
        THEN [e3 EXCEPT !.gameState = "GameOver"]
        ELSE e3)))

\* Fault: startGame() leaves the multiplier and its expiry as they are.
startGameKeepMultiplier(e, rnd) ==
    With([e EXCEPT !.grid = reset(e.grid), !.score = 0, !.level = 1], LAMBDA e1 :
    With(spawnTetrimino(e1, rnd), LAMBDA e2 :
        [e2 EXCEPT !.gameState = "Running"]))

startGame(e, rnd) ==
    With([e EXCEPT !.grid = reset(e.grid), !.score = 0, !.multiplier = 1,
                   !.level = 1, !.multiplierEndTime = 0], LAMBDA e1 :
    With(spawnTetrimino(e1, rnd), LAMBDA e2 :
        [e2 EXCEPT !.gameState = "Running"]))

\* Fault: applyMultiplier() adds the orb multiplier instead of multiplying.
applyMultiplierAdd(e, orbMultiplier, t) ==
    [e EXCEPT !.multiplier = @ + orbMultiplier,
              !.multiplierEndTime = t + multiplierDuration]

applyMultiplier(e, orbMultiplier, t) ==
    [e EXCEPT !.multiplier = MulWrap(@, orbMultiplier),
              !.multiplierEndTime = t + multiplierDuration]

checkMultiplierExpiration(e, t) ==
    IF e.multiplierEndTime > 0 /\ t > e.multiplierEndTime
    THEN [e EXCEPT !.multiplier = 1, !.multiplierEndTime = 0]
    ELSE e

\* Fault: the scoring table has no entry for four lines.
basePointsNoFour(linesCleared) ==
    CASE linesCleared = 1 -> 100
      [] linesCleared = 2 -> 300
      [] linesCleared = 3 -> 500
      [] OTHER -> 0

basePoints(linesCleared) ==
    CASE linesCleared = 1 -> 100
      [] linesCleared = 2 -> 300
      [] linesCleared = 3 -> 500
      [] linesCleared = 4 -> 800
      [] OTHER -> 0

\* Fault: updateScore() adds the base points without the multiplier.
updateScoreNoMultiplier(e, linesCleared, t) ==
    With([e EXCEPT !.score = @ + basePoints(linesCleared)],
         LAMBDA e1 : checkMultiplierExpiration(e1, t))

updateScore(e, linesCleared, t) ==
    With([e EXCEPT !.score = AddWrap(@, MulWrap(basePoints(linesCleared), e.multiplier))],
         LAMBDA e1 : checkMultiplierExpiration(e1, t))

\* Fault: the new level is the number of completed 2000-point steps, without
\* the first level.
checkLevelUpNoBase(e) ==
    IF (e.score \div pointsPerLevel) > e.level
    THEN [e EXCEPT !.level = (e.score \div pointsPerLevel)]
    ELSE e

checkLevelUp(e) ==
    IF TruncDiv(e.score, pointsPerLevel) + 1 > e.level
    THEN [e EXCEPT !.level = TruncDiv(e.score, pointsPerLevel) + 1]
    ELSE e

RECURSIVE Sum(_, _, _)
Sum(s, F(_), k) == IF k = 0 THEN 0 ELSE Sum(s, F, k - 1) + F(s[k])

\* Fault: the blast centre is the average rounded to the nearest cell.
applyBombEffectRounded(e, tetrimino) ==
    With(getBlocks(tetrimino), LAMBDA blocks :
        IF Len(blocks) = 0 THEN e
        ELSE
        With((2 * Sum(blocks, LAMBDA p : p.x, Len(blocks)) + Len(blocks))
                 \div (2 * Len(blocks)), LAMBDA centerX :
        With((2 * Sum(blocks, LAMBDA p : p.y, Len(blocks)) + Len(blocks))
                 \div (2 * Len(blocks)), LAMBDA centerY :
        With({p \in {Position(x, y) :
                        x \in (centerX - bombRadius)..(centerX + bombRadius),
                        y \in (centerY - bombRadius)..(centerY + bombRadius)} :
                 isInBounds(p)}, LAMBDA blast :
            [e EXCEPT
                !.grid.cells = [y \in 0..(height - 1) |-> [x \in 0..(width - 1) |->
                                   IF Position(x, y) \in blast THEN 0
                                   ELSE e.grid.cells[y][x]]],
                !.score = AddWrap(@, MulWrap(bombPoints, e.multiplier))]))))

applyBombEffect(e, tetrimino) ==
    With(getBlocks(tetrimino), LAMBDA blocks :
        IF Len(blocks) = 0 THEN e
        ELSE
        With(TruncDiv(Sum(blocks, LAMBDA p : p.x, Len(blocks)), Len(blocks)),
             LAMBDA centerX :
        With(TruncDiv(Sum(blocks, LAMBDA p : p.y, Len(blocks)), Len(blocks)),
             LAMBDA centerY :
        With({p \in {Position(x, y) :
                        x \in (centerX - bombRadius)..(centerX + bombRadius),
                        y \in (centerY - bombRadius)..(centerY + bombRadius)} :
                 isInBounds(p)}, LAMBDA blast :
            [e EXCEPT
                !.grid.cells = [y \in 0..(height - 1) |-> [x \in 0..(width - 1) |->
                                   IF Position(x, y) \in blast THEN 0
                                   ELSE e.grid.cells[y][x]]],
                !.score = AddWrap(@, MulWrap(bombPoints, e.multiplier))]))))

\* map { it.y }.distinct(): first occurrences, in order.
RECURSIVE Distinct(_, _)
Distinct(s, k) ==
    IF k = 0 THEN <<>>
    ELSE IF \E j \in 1..(k - 1) : s[j] = s[k] THEN Distinct(s, k - 1)
    ELSE Append(Distinct(s, k - 1), s[k])

RECURSIVE clearRows(_, _, _)
clearRows(g, rows, k) ==
    IF k > Len(rows) THEN g
    ELSE IF rows[k] >= 0 /\ rows[k] < height
         THEN With(clearLine(g, rows[k]), LAMBDA g1 :
              With(shiftLinesDown(g1, rows[k]), LAMBDA g2 : clearRows(g2, rows, k + 1)))
         ELSE clearRows(g, rows, k + 1)

\* Fault: the rows of the blocks are not reduced to distinct rows.
applyLineClearEffectPerBlock(e, tetrimino) ==
    With(getBlocks(tetrimino), LAMBDA blocks :
    With([k \in 1..Len(blocks) |-> blocks[k].y], LAMBDA rows :
        [e EXCEPT !.grid = clearRows(e.grid, rows, 1),
                  !.score = AddWrap(@, MulWrap(Len(rows) * lineClearPoints, e.multiplier))]))

applyLineClearEffect(e, tetrimino) ==
    With(getBlocks(tetrimino), LAMBDA blocks :
    With([k \in 1..Len(blocks) |-> blocks[k].y], LAMBDA ys :
    With(Distinct(ys, Len(ys)), LAMBDA rows :
        [e EXCEPT !.grid = clearRows(e.grid, rows, 1),
                  !.score = AddWrap(@, MulWrap(Len(rows) * lineClearPoints, e.multiplier))])))

lockTetrimino(e, rnd, t) ==
    IF ~IsSome(e.currentTetrimino) THEN e
    ELSE
    With(Get(e.currentTetrimino), LAMBDA tetrimino :
    With(CASE tetrimino.powerUp = "BOMB" -> applyBombEffect(e, tetrimino)
           [] tetrimino.powerUp = "LINE_CLEAR" -> applyLineClearEffect(e, tetrimino)
           [] OTHER -> [e EXCEPT !.grid = place(e.grid, tetrimino)], LAMBDA e1 :
    With(clearLines(e1.grid, rnd.orb), LAMBDA cl :
    With([e1 EXCEPT !.grid = cl.g], LAMBDA e2 :
    With(IF cl.linesCleared > 0 /\ cl.totalMultiplier > 1
         THEN applyMultiplier(e2, cl.totalMultiplier, t)
         ELSE e2, LAMBDA e3 :
    With(updateScore(e3, cl.linesCleared, t), LAMBDA e4 :
    With(checkLevelUp(e4), LAMBDA e5 :
        spawnTetrimino(e5, rnd))))))))

\* Fault: moveLeft() commits the candidate without isValidMove.
moveLeftUnchecked(e) ==
    IF ~IsSome(e.currentTetrimino) THEN e
    ELSE With([e EXCEPT !.currentTetrimino = Some(TmoveLeft(Get(e.currentTetrimino)))],
              LAMBDA e1 : updateGhostPosition(e1))

\* Fault: moveLeft() commits the move without updateGhostPosition().
moveLeftNoGhost(e) ==
    IF ~IsSome(e.currentTetrimino) THEN e
    ELSE With(TmoveLeft(Get(e.currentTetrimino)), LAMBDA movedTetrimino :
             IF isValidMove(e, movedTetrimino)
             THEN [e EXCEPT !.currentTetrimino = Some(movedTetrimino)]
             ELSE e)

moveLeft(e) ==
    IF ~IsSome(e.currentTetrimino) THEN e
    ELSE With(TmoveLeft(Get(e.currentTetrimino)), LAMBDA movedTetrimino :
             IF isValidMove(e, movedTetrimino)
             THEN With([e EXCEPT !.currentTetrimino = Some(movedTetrimino)],
                       LAMBDA e1 : updateGhostPosition(e1))
             ELSE e)

\* Fault: moveRight() without updateGhostPosition().
moveRightStaleGhost(e) ==
    IF ~IsSome(e.currentTetrimino) THEN e
    ELSE With(TmoveRight(Get(e.currentTetrimino)), LAMBDA movedTetrimino :
             IF isValidMove(e, movedTetrimino)
             THEN [e EXCEPT !.currentTetrimino = Some(movedTetrimino)]
             ELSE e)

moveRight(e) ==
    IF ~IsSome(e.currentTetrimino) THEN e
    ELSE With(TmoveRight(Get(e.currentTetrimino)), LAMBDA movedTetrimino :
             IF isValidMove(e, movedTetrimino)
             THEN With([e EXCEPT !.currentTetrimino = Some(movedTetrimino)],
                       LAMBDA e1 : updateGhostPosition(e1))
             ELSE e)

\* Fault: a rotation that does not fit is retried one column to the left.
rotateWithKick(e) ==
    IF ~IsSome(e.currentTetrimino) THEN e
    ELSE With(Trotate(Get(e.currentTetrimino)), LAMBDA rotatedTetrimino :
             IF isValidMove(e, rotatedTetrimino)
             THEN With([e EXCEPT !.currentTetrimino = Some(rotatedTetrimino)],
                       LAMBDA e1 : updateGhostPosition(e1))
             ELSE IF isValidMove(e, TmoveLeft(rotatedTetrimino))
             THEN With([e EXCEPT !.currentTetrimino = Some(TmoveLeft(rotatedTetrimino))],
                       LAMBDA e1 : updateGhostPosition(e1))
             ELSE e)

rotate(e) ==
    IF ~IsSome(e.currentTetrimino) THEN e
    ELSE With(Trotate(Get(e.currentTetrimino)), LAMBDA rotatedTetrimino :
             IF isValidMove(e, rotatedTetrimino)
             THEN With([e EXCEPT !.currentTetrimino = Some(rotatedTetrimino)],
                       LAMBDA e1 : updateGhostPosition(e1))
             ELSE e)

\* Fault: moveDown() of a piece that cannot descend does not lock it.
moveDownNoLock(e, rnd, t) ==
    IF ~IsSome(e.currentTetrimino) THEN [e |-> e, ret |-> FALSE, locked |-> FALSE]
    ELSE With(TmoveDown(Get(e.currentTetrimino)), LAMBDA movedTetrimino :
             IF isValidMove(e, movedTetrimino)
             THEN [e |-> [e EXCEPT !.currentTetrimino = Some(movedTetrimino)],
                   ret |-> TRUE, locked |-> FALSE]
             ELSE [e |-> e, ret |-> FALSE, locked |-> FALSE])

\* Fault: moveDown() lifts a piece that cannot descend instead of locking it.
moveDownBounce(e, rnd, t) ==
    IF ~IsSome(e.currentTetrimino) THEN [e |-> e, ret |-> FALSE, locked |-> FALSE]
    ELSE With(TmoveDown(Get(e.currentTetrimino)), LAMBDA movedTetrimino :
             IF isValidMove(e, movedTetrimino)
             THEN [e |-> [e EXCEPT !.currentTetrimino = Some(movedTetrimino)],
                   ret |-> TRUE, locked |-> FALSE]
             ELSE [e |-> [e EXCEPT !.currentTetrimino =
                              Some([Get(@) EXCEPT !.position.y = @ - 1])],
                   ret |-> FALSE, locked |-> FALSE])

\* Returns [e, ret, locked]: the engine after the call, the value returned and
\* whether lockTetrimino() ran.
moveDown(e, rnd, t) ==
    IF ~IsSome(e.currentTetrimino) THEN [e |-> e, ret |-> FALSE, locked |-> FALSE]
    ELSE With(TmoveDown(Get(e.currentTetrimino)), LAMBDA movedTetrimino :
             IF isValidMove(e, movedTetrimino)
             THEN [e |-> [e EXCEPT !.currentTetrimino = Some(movedTetrimino)],
                   ret |-> TRUE, locked |-> FALSE]
             ELSE [e |-> lockTetrimino(e, rnd, t), ret |-> FALSE, locked |-> TRUE])

hardDrop(e, rnd, t) ==
    IF ~IsSome(e.currentTetrimino) THEN [e |-> e, locked |-> FALSE]
    ELSE With(dropWhileValid(e, Get(e.currentTetrimino)), LAMBDA movedTetrimino :
         With([e EXCEPT !.currentTetrimino = Some(movedTetrimino)], LAMBDA e1 :
             [e |-> lockTetrimino(e1, rnd, t), locked |-> TRUE]))

\* Fault: pauseGame() without its state check.
pauseGameAlways(e) == [e EXCEPT !.gameState = "Paused"]

pauseGame(e) ==
    IF e.gameState = "Running" THEN [e EXCEPT !.gameState = "Paused"] ELSE e

\* Fault: resumeGame() without its state check.
resumeGameAlways(e) == [e EXCEPT !.gameState = "Running"]

resumeGame(e) ==
    IF e.gameState = "Paused" THEN [e EXCEPT !.gameState = "Running"] ELSE e

----------------------------------------------------------------------------
(* GameViewModel: each command returns [e, locked]: the engine after the   *)
(* command and whether lockTetrimino() ran.                                *)

Out(e, l) == [e |-> e, locked |-> l]

vmStartGame(e, rnd) == Out(startGame(e, rnd), FALSE)
vmPauseGame(e) == Out(pauseGame(e), FALSE)
vmResumeGame(e) == Out(resumeGame(e), FALSE)

\* Fault: the view model's moveLeft() without its state check.
vmMoveLeftUnguarded(e) == Out(moveLeft(e), FALSE)

vmMoveLeft(e) ==
    IF e.gameState = "Running" THEN Out(moveLeft(e), FALSE) ELSE Out(e, FALSE)

vmMoveRight(e) ==
    IF e.gameState = "Running" THEN Out(moveRight(e), FALSE) ELSE Out(e, FALSE)

vmRotate(e) ==
    IF e.gameState = "Running" THEN Out(rotate(e), FALSE) ELSE Out(e, FALSE)

vmSoftDrop(e, rnd, t) ==
    IF e.gameState = "Running"
    THEN With(moveDown(e, rnd, t), LAMBDA r : Out(r.e, r.locked))
    ELSE Out(e, FALSE)

vmHardDrop(e, rnd, t) ==
    IF e.gameState = "Running"
    THEN With(hardDrop(e, rnd, t), LAMBDA r : Out(r.e, r.locked))
    ELSE Out(e, FALSE)

\* One pass of the loop of startGameLoop, after its delay.
gameLoopTick(e, rnd, t) ==
    IF e.gameState = "Running"
    THEN With(moveDown(e, rnd, t), LAMBDA r : Out(r.e, r.locked))
    ELSE Out(e, FALSE)

\* One pass of the loop that also reports whether moveDown() was called.
gameLoopPass(e, rnd, t) ==
    IF e.gameState = "Running"
    THEN With(moveDown(e, rnd, t), LAMBDA r :
             [e |-> r.e, locked |-> r.locked, called |-> TRUE])
    ELSE [e |-> e, locked |-> FALSE, called |-> FALSE]

\* The loop jobs are named 1..MaxJobs; a name is free again once its job is
\* cancelled.  l = [gameLoopJob, jobs, dropSpeed].
MaxJobs == 3
JobIds == 1..MaxJobs

\* gameLoopJob?.cancel()
cancelJob(l) ==
    IF IsSome(l.gameLoopJob) THEN l.jobs \ {Get(l.gameLoopJob)} ELSE l.jobs

launchJob(l, active) ==
    With(CHOOSE j \in JobIds \ active : \A k \in JobIds \ active : j <= k,
         LAMBDA j : [l EXCEPT !.gameLoopJob = <<j>>, !.jobs = active \cup {j}])

\* Fault: startGameLoop() launches without cancelling the job it replaces.
startGameLoopNoCancel(l) == launchJob(l, l.jobs)

startGameLoop(l) == launchJob(l, cancelJob(l))

stopGameLoop(l) == [l EXCEPT !.gameLoopJob = None, !.jobs = cancelJob(l)]

setDropSpeed(l, speed, state) ==
    With([l EXCEPT !.dropSpeed = speed], LAMBDA l1 :
        IF state = "Running" THEN startGameLoop(l1) ELSE l1)

adjustDropSpeedForLevel(l, lvl, state) ==
    With(IF 800 - (lvl - 1) * 50 >= 200 THEN 800 - (lvl - 1) * 50 ELSE 200,
         LAMBDA newSpeed :
        IF newSpeed # l.dropSpeed THEN setDropSpeed(l, newSpeed, state) ELSE l)

\* The body of the collector of gameEngine.gameState.
onGameState(l, state) ==
    IF state = "Running" THEN startGameLoop(l) ELSE stopGameLoop(l)

----------------------------------------------------------------------------
(* Random draws.  A generator draw is [type, roll, powerUp]: the type      *)
(* index, the float of shouldGeneratePowerUp and the index of random().    *)
(* An orb draw is [spawnRoll, halfRoll, prefer, typeRoll].                 *)

Gen(type, powerUp) ==
    [type |-> type,
     roll |-> IF powerUp = NoPowerUp THEN 99 ELSE 0,
     powerUp |-> IF powerUp = NoPowerUp THEN "BOMB" ELSE powerUp]

NoOrb == [spawnRoll |-> 99, halfRoll |-> 0, prefer |-> Position(0, 0), typeRoll |-> 0]

OrbAt(x, y, typeRoll) ==
    [spawnRoll |-> 0, halfRoll |-> IF 2 * y >= height + orbFreeRows THEN 0 ELSE 99,
     prefer |-> Position(x, y), typeRoll |-> typeRoll]

Rnd(gen0, gen, orb) == [gen0 |-> gen0, gen |-> gen, orb |-> orb]

\* The draws the actions choose from.
FirstDraws == {Gen("I", NoPowerUp)}
GenDraws == {Gen("I", NoPowerUp), Gen("T", "GHOST")}
OrbDraws == {NoOrb, OrbAt(9, 19, 0)}

----------------------------------------------------------------------------
(* Recorded openings: command sequences played from the constructed        *)
(* engine.  A step is [cmd, rnd].                                          *)

Cmd(c) == [cmd |-> c, rnd |-> Rnd(Gen("I", NoPowerUp), Gen("I", NoPowerUp), NoOrb)]
CmdR(c, gen, orb) == [cmd |-> c, rnd |-> Rnd(Gen("I", NoPowerUp), gen, orb)]
Rep(c, n) == [k \in 1..n |-> c]

ClockStart == 1

PlayStep(e, c) ==
    CASE c.cmd = "startGame" -> vmStartGame(e, c.rnd).e
      [] c.cmd = "moveLeft"  -> vmMoveLeft(e).e
      [] c.cmd = "moveRight" -> vmMoveRight(e).e
      [] c.cmd = "rotate"    -> vmRotate(e).e
      [] c.cmd = "softDrop"  -> vmSoftDrop(e, c.rnd, ClockStart).e
      [] c.cmd = "hardDrop"  -> vmHardDrop(e, c.rnd, ClockStart).e
      [] c.cmd = "pauseGame" -> vmPauseGame(e).e
      [] c.cmd = "resumeGame" -> vmResumeGame(e).e

\* The engine after steps lo..hi of the script, played in order.
RECURSIVE Play(_, _, _, _)
Play(e, script, lo, hi) ==
    IF lo > hi THEN e
    ELSE IF lo = hi THEN PlayStep(e, script[lo])
    ELSE With(Play(e, script, lo, (lo + hi) \div 2), LAMBDA e1 :
             Play(e1, script, ((lo + hi) \div 2) + 1, hi))

\* Move the spawned piece from column spawnX to column x.
Shift(x) ==
    IF x < spawnX THEN Rep(Cmd("moveLeft"), spawnX - x)
    ELSE Rep(Cmd("moveRight"), x - spawnX)

\* Drop the current I lying flat with position.x = x.
FlatI(x, gen, orb) == Shift(x) \o <<CmdR("hardDrop", gen, orb)>>
\* Drop the current I upright in column col (its blocks are at position.x + 2).
UprightI(col, gen, orb) ==
    <<Cmd("rotate")>> \o Shift(col - 2) \o <<CmdR("hardDrop", gen, orb)>>

\* n rows filled in columns 0..7, bottom row first.  The first lock of the
\* last row draws orb; the last lock draws cur, the piece after the next one.
RECURSIVE Rows(_, _, _)
Rows(n, orb, cur) ==
    IF n = 0 THEN <<>>
    ELSE FlatI(0, Gen("I", NoPowerUp), IF n = 1 THEN orb ELSE NoOrb)
         \o FlatI(4, IF n = 1 THEN cur ELSE Gen("I", NoPowerUp), NoOrb)
         \o Rows(n - 1, orb, cur)

\* n rows filled in columns 0..7 and an upright I in column 8, so that column
\* 9 is the only gap of the lowest n rows; the current piece (drawn as cur)
\* has fallen Fall rows and the next one was drawn as nxt.
Wall(n, orb, cur, nxt) ==
    <<Cmd("startGame")>> \o Rows(n, orb, cur) \o UprightI(8, nxt, NoOrb)
    \o Rep(Cmd("softDrop"), Fall)

\* A wall of one row with a LARGE orb in its gap, the orb collected by an
\* upright I that clears the row, then a flat I in columns 0..3: the
\* multiplier is running and a flat I in columns 4..7 completes the bottom row.
Combo ==
    <<Cmd("startGame")>> \o Rows(1, OrbAt(9, 19, 95), Gen("I", NoPowerUp))
    \o UprightI(8, Gen("I", NoPowerUp), NoOrb)
    \o UprightI(9, Gen("I", NoPowerUp), NoOrb)
    \o FlatI(0, Gen("O", NoPowerUp), NoOrb)
    \o Rep(Cmd("softDrop"), Fall)

\* As Combo, with a MEDIUM orb spawned in the gap that the flat I in columns
\* 4..7 fills.
ComboOrb ==
    <<Cmd("startGame")>> \o Rows(1, OrbAt(9, 19, 95), Gen("I", NoPowerUp))
    \o UprightI(8, Gen("I", NoPowerUp), NoOrb)
    \o UprightI(9, Gen("I", NoPowerUp), NoOrb)
    \o FlatI(0, Gen("O", NoPowerUp), OrbAt(5, 19, 60))
    \o Rep(Cmd("softDrop"), Fall)

\* Two rows filled in columns 0..7 and four orbs, three of them stacked in
\* column 9; the current piece (drawn as cur) has fallen Fall rows.
OrbStack(cur, nxt) ==
    <<Cmd("startGame")>>
    \o FlatI(0, Gen("I", NoPowerUp), OrbAt(9, 18, 0))
    \o FlatI(4, Gen("I", NoPowerUp), OrbAt(9, 17, 60))
    \o FlatI(0, cur, OrbAt(5, 17, 0))
    \o FlatI(4, nxt, OrbAt(9, 19, 95))
    \o Rep(Cmd("softDrop"), Fall)

RECURSIVE Uprights(_, _)
Uprights(n, nxt) ==
    IF n = 0 THEN <<>>
    ELSE Uprights(n - 1, Gen("I", NoPowerUp)) \o UprightI(6, nxt, NoOrb)

\* n upright I pieces stacked in column 6; the current piece is an I.
Tower(n, nxt) == <<Cmd("startGame")>> \o Uprights(n, nxt)

\* Four rows filled in columns 0..7 and an upright I in column 8, with a LARGE
\* orb spawned in each of the four cells of the gap in column 9.
Well ==
    <<Cmd("startGame")>>
    \o FlatI(0, Gen("I", NoPowerUp), OrbAt(9, 19, 95))
    \o FlatI(4, Gen("I", NoPowerUp), OrbAt(9, 18, 95))
    \o FlatI(0, Gen("I", NoPowerUp), OrbAt(9, 17, 95))
    \o FlatI(4, Gen("I", NoPowerUp), OrbAt(9, 16, 95))
    \o Rows(2, NoOrb, Gen("I", NoPowerUp))
    \o UprightI(8, Gen("O", NoPowerUp), NoOrb)
    \o Rep(Cmd("softDrop"), Fall)

\* The opening Well played twice with MEDIUM orbs: the first well is cleared
\* by an upright I in column 9, which collects its four orbs, and the second
\* well is built at the same clock time, while that multiplier is running.
WellRows(typeRoll) ==
    FlatI(0, Gen("I", NoPowerUp), OrbAt(9, 19, typeRoll))
    \o FlatI(4, Gen("I", NoPowerUp), OrbAt(9, 18, typeRoll))
    \o FlatI(0, Gen("I", NoPowerUp), OrbAt(9, 17, typeRoll))
    \o FlatI(4, Gen("I", NoPowerUp), OrbAt(9, 16, typeRoll))
    \o Rows(2, NoOrb, Gen("I", NoPowerUp))

WellTwice ==
    <<Cmd("startGame")>>
    \o WellRows(60)
    \o UprightI(8, Gen("I", NoPowerUp), NoOrb)
    \o UprightI(9, Gen("I", NoPowerUp), NoOrb)
    \o WellRows(60)
    \o UprightI(8, Gen("O", NoPowerUp), NoOrb)
    \o Rep(Cmd("softDrop"), Fall)

\* The grid of ComboOrb without a multiplier running, with two MEDIUM orbs
\* one above the other in the gap of the bottom row and over it.
Twins ==
    <<Cmd("startGame")>> \o Rows(1, NoOrb, Gen("I", NoPowerUp))
    \o UprightI(8, Gen("I", NoPowerUp), NoOrb)
    \o UprightI(9, Gen("I", NoPowerUp), OrbAt(5, 18, 60))
    \o FlatI(0, Gen("O", NoPowerUp), OrbAt(5, 19, 60))
    \o Rep(Cmd("softDrop"), Fall)

Openings ==
    { <<>>,
      Wall(1, OrbAt(9, 19, 95), Gen("I", NoPowerUp), Gen("O", NoPowerUp)),
      Wall(1, OrbAt(9, 19, 0), Gen("I", NoPowerUp), Gen("O", NoPowerUp)),
      Wall(1, OrbAt(9, 19, 60), Gen("I", NoPowerUp), Gen("O", NoPowerUp)),
      Wall(2, OrbAt(9, 19, 60), Gen("I", NoPowerUp), Gen("T", NoPowerUp)),
      Wall(3, NoOrb, Gen("I", NoPowerUp), Gen("Z", NoPowerUp)),
      Wall(4, NoOrb, Gen("I", NoPowerUp), Gen("S", NoPowerUp)),
      Wall(1, NoOrb, Gen("T", "BOMB"), Gen("I", NoPowerUp)),
      Wall(2, NoOrb, Gen("L", "LINE_CLEAR"), Gen("I", NoPowerUp)),
      Wall(1, NoOrb, Gen("J", "GHOST"), Gen("I", NoPowerUp)),
      Wall(1, NoOrb, Gen("O", NoPowerUp), Gen("I", NoPowerUp)),
      Wall(1, NoOrb, Gen("S", NoPowerUp), Gen("I", NoPowerUp)),
      Wall(1, NoOrb, Gen("Z", NoPowerUp), Gen("I", NoPowerUp)),
      Combo,
      ComboOrb,
      Twins,
      OrbStack(Gen("I", NoPowerUp), Gen("Z", NoPowerUp)),
      OrbStack(Gen("L", "LINE_CLEAR"), Gen("I", NoPowerUp)),
      Tower(4, Gen("T", "GHOST")),
      Tower(4, Gen("J", NoPowerUp)) }

----------------------------------------------------------------------------
(* towerdefense/main.js: the upgrade table                                 *)

UpgradeTypes == {"guns", "turning", "firing", "harden", "aoe", "laser", "missile"}

\* level is the level as declared; cost is indexed from 1 here, from 0 in the page.
upgradeData ==
    [guns    |-> [level |-> 1, cost |-> <<100, 200, 300>>, max |-> 4],
     turning |-> [level |-> 1, cost |-> <<100, 200, 300>>, max |-> 4],
     firing  |-> [level |-> 1, cost |-> <<100, 200, 300>>, max |-> 4],
     harden  |-> [level |-> 1, cost |-> <<150, 250, 350>>, max |-> 4],
     aoe     |-> [level |-> 0, cost |-> <<250, 350, 500>>, max |-> 3],
     laser   |-> [level |-> 0, cost |-> <<300, 400, 600>>, max |-> 3],
     missile |-> [level |-> 0, cost |-> <<350, 500, 700>>, max |-> 3]]

\* The upgrades that start at level 0.
Tiered == {"aoe", "laser", "missile"}

\* enemyTypes[...].reward
Rewards == {5, 15}

\* st = [currency, wave, upgrades]
spendCurrency(st, amount) ==
    IF st.currency >= amount
    THEN [st |-> [st EXCEPT !.currency = @ - amount], ret |-> TRUE]
    ELSE [st |-> st, ret |-> FALSE]

\* The index into cost that upgrade() computes, counted from 0 as in the page.
costIndex(st, type) ==
    IF st.upgrades[type] = 0 /\ type \in Tiered THEN 0 ELSE st.upgrades[type] - 1

upgrade(st, type) ==
    With(upgradeData[type], LAMBDA up :
        IF st.upgrades[type] < up.max
        THEN With(spendCurrency(st, up.cost[costIndex(st, type) + 1]), LAMBDA r :
                 IF r.ret THEN [r.st EXCEPT !.upgrades[type] = @ + 1] ELSE st)
        ELSE st)

\* upgrades[type].locked(), for the upgrades that have it.
locked(st, type) ==
    CASE type = "aoe"     -> st.wave < 3
      [] type = "laser"   -> st.upgrades["aoe"] = 0
      [] type = "missile" -> st.upgrades["laser"] = 0
      [] OTHER            -> FALSE

\* The index into cost that updateUI() reads for the button of type.
shownIndex(st, type) ==
    IF type \in Tiered THEN st.upgrades[type] ELSE st.upgrades[type] - 1

\* updateUI(): the cost on the button of type (None is '-' or a locked
\* button's text) and whether the button is disabled.
updateUI(st, type) ==
    With(upgradeData[type], LAMBDA up :
        IF locked(st, type) THEN [cost |-> None, disabled |-> TRUE]
        ELSE IF st.upgrades[type] >= up.max THEN [cost |-> None, disabled |-> TRUE]
        ELSE [cost |-> Some(up.cost[shownIndex(st, type) + 1]),
              disabled |-> st.currency < up.cost[shownIndex(st, type) + 1]])

----------------------------------------------------------------------------
(* The state machine *)

Eng ==
    [grid |-> grid, currentTetrimino |-> currentTetrimino,
     nextTetrimino |-> nextTetrimino, gameState |-> gameState, score |-> score,
     multiplier |-> multiplier, level |-> level,
     multiplierEndTime |-> multiplierEndTime, ghostPosition |-> ghostPosition,
     generated |-> generated]

\* The engine is e.
IsEngine(e) ==
    /\ grid = e.grid
    /\ currentTetrimino = e.currentTetrimino
    /\ nextTetrimino = e.nextTetrimino
    /\ gameState = e.gameState
    /\ score = e.score
    /\ multiplier = e.multiplier
    /\ level = e.level
    /\ multiplierEndTime = e.multiplierEndTime
    /\ ghostPosition = e.ghostPosition
    /\ generated = e.generated

\* GameViewModel's fields as declared, before its collectors have run.
LoopNew ==
    /\ gameLoopJob = None
    /\ jobs = {}
    /\ dropSpeed = 800
    /\ stateSeen = "none"
    /\ levelSeen = 0
    /\ moveDownAt = "none"

\* The tower-defense page as loaded: no credits, wave 1, the declared levels.
ShopNew ==
    /\ currency = 0
    /\ wave = 1
    /\ upgrades = [type \in UpgradeTypes |-> upgradeData[type].level]
    /\ kills = 0

\* Init: the engine as constructed, or as one of the openings leaves it.
Init ==
    /\ \E script \in Openings :
          /\ \E e \in {Play(NewEngine, script, 1, Len(script))} : IsEngine(e)
          /\ games = Cardinality({k \in 1..Len(script) : script[k].cmd = "startGame"})
    /\ now = ClockStart
    /\ locks = 0
    /\ LoopNew
    /\ ShopNew

\* A command's outcome becomes the engine's next state.
CommitEngine(out) ==
    /\ grid' = out.e.grid
    /\ currentTetrimino' = out.e.currentTetrimino
    /\ nextTetrimino' = out.e.nextTetrimino
    /\ gameState' = out.e.gameState
    /\ score' = out.e.score
    /\ multiplier' = out.e.multiplier
    /\ level' = out.e.level
    /\ multiplierEndTime' = out.e.multiplierEndTime
    /\ ghostPosition' = out.e.ghostPosition
    /\ generated' = out.e.generated
    /\ locks' = IF out.locked THEN locks + 1 ELSE locks
    /\ now' = now

\* A command of the view model changes the engine only.
Commit(out) == CommitEngine(out) /\ UNCHANGED <<loop, shop>>

\* The model follows the first MaxGames games until MaxLocks pieces have
\* locked: piece commands and gravity ticks are issued only before that.
Playing == locks < MaxLocks /\ games <= MaxGames

\* lockTetrimino() is the only consumer of draws in a piece command.
WouldLock(down) ==
    /\ gameState = "Running"
    /\ IsSome(currentTetrimino)
    /\ down => \E e \in {Eng} : ~isValidMove(e, TmoveDown(Get(e.currentTetrimino)))

AnyDraw == Rnd(Gen("I", NoPowerUp), Gen("I", NoPowerUp), NoOrb)

\* startGame() draws only tetriminos, two of them when there is no next one.
StartDraws ==
    {Rnd(g0, g, NoOrb) : g0 \in (IF IsSome(nextTetrimino) THEN {Gen("I", NoPowerUp)}
                                 ELSE FirstDraws),
                         g \in GenDraws}

LockDraws(used) ==
    IF used
    THEN {Rnd(Gen("I", NoPowerUp), g, o) : g \in GenDraws, o \in OrbDraws}
    ELSE {AnyDraw}

StartGame ==
    /\ games <= MaxGames
    /\ \E e \in {Eng} : \E rnd \in StartDraws :
          \E out \in {vmStartGame(e, rnd)} : Commit(out)
    /\ games' = games + 1
PauseGame ==
    /\ \E e \in {Eng} : \E out \in {vmPauseGame(e)} : Commit(out)
    /\ games' = games
ResumeGame ==
    /\ \E e \in {Eng} : \E out \in {vmResumeGame(e)} : Commit(out)
    /\ games' = games
MoveLeft ==
    /\ Playing
    /\ \E e \in {Eng} : \E out \in {vmMoveLeft(e)} : Commit(out)
    /\ games' = games
MoveRight ==
    /\ Playing
    /\ \E e \in {Eng} : \E out \in {vmMoveRight(e)} : Commit(out)
    /\ games' = games
Rotate ==
    /\ Playing
    /\ \E e \in {Eng} : \E out \in {vmRotate(e)} : Commit(out)
    /\ games' = games
SoftDrop ==
    /\ Playing
    /\ \E e \in {Eng} : \E rnd \in LockDraws(WouldLock(TRUE)) :
          \E out \in {vmSoftDrop(e, rnd, now)} : Commit(out)
    /\ games' = games
HardDrop ==
    /\ Playing
    /\ \E e \in {Eng} : \E rnd \in LockDraws(WouldLock(FALSE)) :
          \E out \in {vmHardDrop(e, rnd, now)} : Commit(out)
    /\ games' = games
GameLoopTick ==
    /\ Playing
    /\ \E e \in {Eng} : \E rnd \in LockDraws(WouldLock(TRUE)) :
          \E out \in {gameLoopTick(e, rnd, now)} : Commit(out)
    /\ games' = games

\* Wall-clock time passes.  The clock is read only while an expiry is stored
\* (applyMultiplier sets it relative to the reading), so it is advanced only then.
AdvanceClock ==
    /\ multiplierEndTime > 0
    /\ now + ClockStep <= MaxClock
    /\ now' = now + ClockStep
    /\ UNCHANGED <<engine, locks, games, loop, shop>>

Next ==
    \/ StartGame
    \/ PauseGame
    \/ ResumeGame
    \/ MoveLeft
    \/ MoveRight
    \/ Rotate
    \/ SoftDrop
    \/ HardDrop
    \/ GameLoopTick
    \/ AdvanceClock

Spec == Init /\ [][Next]_vars

----------------------------------------------------------------------------
(* GameViewModel's collectors and its loop jobs.  Everything runs on the   *)
(* main thread of viewModelScope: a collector body, a command and a pass   *)
(* of a loop each run from one suspension point to the next.               *)

Loop == [gameLoopJob |-> gameLoopJob, jobs |-> jobs, dropSpeed |-> dropSpeed]

IsLoop(l) ==
    /\ gameLoopJob' = l.gameLoopJob
    /\ jobs' = l.jobs
    /\ dropSpeed' = l.dropSpeed

\* A wall of two rows with a MEDIUM orb in its gap and the current I upright
\* over the gap: its lock clears both rows and raises the level.
Chute ==
    Wall(2, OrbAt(9, 19, 60), Gen("I", NoPowerUp), Gen("T", NoPowerUp))
    \o <<Cmd("rotate")>> \o Shift(7)

\* The view model as constructed, or in the game Chute with its collectors
\* up to date and the loop they started.
InitLoop ==
    /\ now = ClockStart
    /\ locks = 0
    /\ ShopNew
    /\ \/ /\ IsEngine(NewEngine)
          /\ games = 0
          /\ LoopNew
       \/ /\ \E e \in {Play(NewEngine, Chute, 1, Len(Chute))} : IsEngine(e)
          /\ games = 1
          /\ gameLoopJob = <<1>>
          /\ jobs = {1}
          /\ dropSpeed = 800
          /\ stateSeen = "Running"
          /\ levelSeen = 1
          /\ moveDownAt = "none"

\* The state collector receives the current gameState when it differs from
\* the value it received last (a StateFlow conflates).  A job is launched
\* only while one of the names 1..MaxJobs is free.
CollectState ==
    /\ stateSeen # gameState
    /\ jobs # JobIds
    /\ stateSeen' = gameState
    /\ IsLoop(onGameState(Loop, gameState))
    /\ UNCHANGED <<engine, now, locks, games, levelSeen, moveDownAt, shop>>

CollectLevel ==
    /\ levelSeen # level
    /\ jobs # JobIds
    /\ levelSeen' = level
    /\ IsLoop(adjustDropSpeedForLevel(Loop, level, gameState))
    /\ UNCHANGED <<engine, now, locks, games, stateSeen, moveDownAt, shop>>

SetDropSpeed ==
    /\ jobs # JobIds
    /\ \E speed \in {200, 800} : IsLoop(setDropSpeed(Loop, speed, gameState))
    /\ UNCHANGED <<engine, now, locks, games, stateSeen, levelSeen, moveDownAt, shop>>

\* The delay of an active job ends and its loop makes one pass.
LoopTick ==
    /\ Playing
    /\ jobs # {}
    /\ \E e \in {Eng} : \E rnd \in LockDraws(WouldLock(TRUE)) :
          \E out \in {gameLoopPass(e, rnd, now)} :
             /\ CommitEngine(out)
             /\ moveDownAt' = IF out.called THEN gameState ELSE moveDownAt
    /\ UNCHANGED <<games, gameLoopJob, jobs, dropSpeed, stateSeen, levelSeen, shop>>

NextLoop ==
    \/ StartGame
    \/ PauseGame
    \/ ResumeGame
    \/ HardDrop
    \/ CollectState
    \/ CollectLevel
    \/ SetDropSpeed
    \/ LoopTick

SpecLoop == InitLoop /\ [][NextLoop]_vars

\* The loop of startGameLoop() keeps making passes: delay() returns after
\* dropSpeed milliseconds as long as the job is active.
SpecFair == Init /\ [][Next]_vars /\ WF_vars(GameLoopTick)

----------------------------------------------------------------------------
(* The tower-defense page.  Its script is single-threaded: a frame of      *)
(* gameLoop() ends with updateUI(), so a click finds the buttons as        *)
(* updateUI() leaves them for the current state.                           *)

MaxKills == 4
MaxWave == 3

Shop == [currency |-> currency, wave |-> wave, upgrades |-> upgrades]

IsShop(st) ==
    /\ currency' = st.currency
    /\ wave' = st.wave
    /\ upgrades' = st.upgrades

\* The page as loaded, or a later point of a game: wave 12 begins, 600
\* credits were earned from the enemies of the waves before it, none spent.
InitShop ==
    /\ IsEngine(NewEngine)
    /\ now = ClockStart
    /\ locks = 0
    /\ games = 0
    /\ LoopNew
    /\ upgrades = [type \in UpgradeTypes |-> upgradeData[type].level]
    /\ kills = 0
    /\ \/ currency = 0 /\ wave = 1
       \/ currency = 600 /\ wave = 12

\* gameLoop(): a projectile kills an enemy.
Kill ==
    /\ kills < MaxKills
    /\ \E reward \in Rewards : currency' = currency + reward
    /\ kills' = kills + 1
    /\ UNCHANGED <<engine, now, locks, games, loop, wave, upgrades>>

\* gameLoop(): no enemy is left.
NextWave ==
    /\ wave < MaxWave
    /\ wave' = wave + 1
    /\ UNCHANGED <<engine, now, locks, games, loop, currency, upgrades, kills>>

\* A click on an upgrade button that is not disabled.
ClickUpgrade ==
    /\ \E type \in UpgradeTypes :
          /\ ~updateUI(Shop, type).disabled
          /\ IsShop(IF locked(Shop, type) THEN Shop ELSE upgrade(Shop, type))
    /\ UNCHANGED <<engine, now, locks, games, loop, kills>>

NextShop ==
    \/ Kill
    \/ NextWave
    \/ ClickUpgrade

SpecShop == InitShop /\ [][NextShop]_vars

\* The games that begin with the opening Well or WellTwice.
InitWell ==
    /\ \E script \in {Well, WellTwice} :
          \E e \in {Play(NewEngine, script, 1, Len(script))} : IsEngine(e)
    /\ games = 1
    /\ now = ClockStart
    /\ locks = 0
    /\ LoopNew
    /\ ShopNew

SpecWell == InitWell /\ [][Next]_vars

----------------------------------------------------------------------------
(* Properties *)

Cur == Get(currentTetrimino)
Nxt == Get(nextTetrimino)

\* The draws a lock may consume.
Draws == LockDraws(TRUE)

\* C1: gameState changes only along NotStarted->Running, Running->Paused,
\* Paused->Running, Running->GameOver and GameOver->Running: GameOver is
\* never entered from Paused or NotStarted and NotStarted is never re-entered.
C1_Transitions ==
    [][gameState' # gameState =>
          <<gameState, gameState'>> \in
              { <<"NotStarted", "Running">>, <<"Running", "Paused">>,
                <<"Paused", "Running">>, <<"Running", "GameOver">>,
                <<"GameOver", "Running">> }]_vars

\* A running game ended by a lock.
C1_Witness ==
    /\ gameState = "GameOver"
    /\ locks = 1
    /\ games = 1
    /\ Cur.powerUp = NoPowerUp

\* C2: when gameState is not Running, moveLeft, moveRight, rotate, softDrop,
\* hardDrop and the gravity tick leave the whole engine state unchanged.
C2_NotRunningNoOp ==
    gameState # "Running" =>
        \E e \in {Eng} :
            /\ vmMoveLeft(e).e = e
            /\ vmMoveRight(e).e = e
            /\ vmRotate(e).e = e
            /\ \A rnd \in Draws :
                  /\ vmSoftDrop(e, rnd, now).e = e
                  /\ vmHardDrop(e, rnd, now).e = e
                  /\ gameLoopTick(e, rnd, now).e = e

\* A paused game whose piece could move left, turn and fall.
C2_Witness ==
    /\ gameState = "Paused"
    /\ IsSome(currentTetrimino)
    /\ \E e \in {Eng} :
          /\ isValidMove(e, TmoveLeft(Cur))
          /\ isValidMove(e, Trotate(Cur))
          /\ isValidMove(e, TmoveDown(Cur))

\* The candidate t has a block outside the horizontal bounds, at or below row
\* height or, unless it carries GHOST, on a filled cell.
Blocked(t) ==
    \E b \in {getBlocks(t)} : \E k \in 1..Len(b) :
        \/ b[k].x < 0
        \/ b[k].x >= width
        \/ b[k].y >= height
        \/ t.powerUp # "GHOST" /\ b[k].y >= 0 /\ grid.cells[b[k].y][b[k].x] # 0

\* C3: a moveLeft, moveRight or rotate whose candidate fails the validity
\* check leaves every engine field unchanged.
C3_RejectedNoOp ==
    IsSome(currentTetrimino) =>
        \E e \in {Eng} :
            /\ Blocked(TmoveLeft(Cur)) => moveLeft(e) = e
            /\ Blocked(TmoveRight(Cur)) => moveRight(e) = e
            /\ Blocked(Trotate(Cur)) => rotate(e) = e

\* A running piece with a block in column 0 that cannot turn either.
C3_Witness ==
    /\ gameState = "Running"
    /\ IsSome(currentTetrimino)
    /\ \E b \in {getBlocks(Cur)} : \E k \in 1..Len(b) : b[k].x = 0
    /\ Blocked(TmoveLeft(Cur))
    /\ Blocked(Trotate(Cur))

\* C4: after startGame() in any state every grid cell is empty, there are no
\* orbs, score = 0, multiplier = 1, level = 1, no expiry is stored, the
\* current and the next tetrimino are present and gameState = Running.
C4_StartGame ==
    \A rnd \in StartDraws : \E e \in {startGame(Eng, rnd)} :
        /\ \A y \in 0..(height - 1) : \A x \in 0..(width - 1) : e.grid.cells[y][x] = 0
        /\ e.grid.orbs = <<>>
        /\ e.score = 0
        /\ e.multiplier = 1
        /\ e.level = 1
        /\ e.multiplierEndTime = 0
        /\ IsSome(e.currentTetrimino)
        /\ IsSome(e.nextTetrimino)
        /\ e.gameState = "Running"

\* A paused game with blocks on the grid, points and a running multiplier.
C4_Witness ==
    /\ gameState = "Paused"
    /\ score > 0
    /\ multiplier > 1
    /\ multiplierEndTime > 0
    /\ grid.cells # EmptyCells

\* C5: gameState becomes GameOver only in a step that locks a piece, and a
\* step that locks a piece ends in GameOver exactly when the new current
\* piece has a block on a filled or out-of-bounds cell, GHOST or not.
C5_GameOver ==
    [][/\ (gameState' = "GameOver" /\ gameState # "GameOver") => locks' = locks + 1
       /\ locks' = locks + 1 =>
             (gameState' = "GameOver" <=>
                 \E b \in {getBlocks(Get(currentTetrimino'))} : \E k \in 1..Len(b) :
                     \/ b[k].x < 0 \/ b[k].x >= width
                     \/ b[k].y < 0 \/ b[k].y >= height
                     \/ grid'.cells[b[k].y][b[k].x] # 0)]_vars

\* A game ended by the spawn of a GHOST piece.
C5_Witness ==
    /\ gameState = "GameOver"
    /\ locks = 1
    /\ Cur.powerUp = "GHOST"

\* C6: moveDown() with a current piece returns true exactly when the piece
\* can descend one row, and then only the piece's y has grown by 1; otherwise
\* it returns false and the engine is as one lockTetrimino() of the piece at
\* its position leaves it.
C6_MoveDown ==
    IsSome(currentTetrimino) =>
        \E e \in {Eng} : \A rnd \in Draws : \E r \in {moveDown(e, rnd, now)} :
            IF ~Blocked([Cur EXCEPT !.position.y = @ + 1])
            THEN /\ r.ret = TRUE
                 /\ r.e = [e EXCEPT !.currentTetrimino[1].position.y = @ + 1]
                 /\ ~r.locked
            ELSE /\ r.ret = FALSE
                 /\ r.locked
                 /\ r.e = lockTetrimino(e, rnd, now)
                 /\ r.e.generated = e.generated + 1

\* A running piece that fell and now rests on the blocks below it.
C6_Witness ==
    /\ gameState = "Running"
    /\ IsSome(currentTetrimino)
    /\ Cur.position.y > Fall
    /\ Blocked([Cur EXCEPT !.position.y = @ + 1])
    /\ Cur.position.y < height - 4

\* The rows the piece t can fall through from where it is.
Reach(t) ==
    {d \in 0..height : \A j \in 1..d : ~Blocked([t EXCEPT !.position.y = @ + j])}

\* C7: whenever gameState is Running, ghostPosition is where hardDrop() would
\* lock the current piece: the piece's x and the greatest y it reaches by
\* consecutive valid down-moves.
C7_Ghost ==
    (gameState = "Running" /\ IsSome(currentTetrimino)) =>
        /\ IsSome(ghostPosition)
        /\ Get(ghostPosition).x = Cur.position.x
        /\ Get(ghostPosition).y - Cur.position.y \in Reach(Cur)
        /\ \A d \in Reach(Cur) : Cur.position.y + d <= Get(ghostPosition).y
        /\ ghostPosition = Some(dropWhileValid(Eng, Cur).position)

\* A running piece that moved down and sideways and has not landed.
C7_Witness ==
    /\ gameState = "Running"
    /\ IsSome(currentTetrimino)
    /\ Cur.position.y > Fall
    /\ Cur.position.x < spawnX
    /\ Get(ghostPosition).y > Cur.position.y

\* C8: a lock replaces the current tetrimino by the one that was next, at the
\* spawn position with rotation 0, and a newly generated tetrimino becomes
\* next; a piece that was replaced is never current again.
C8_Spawn ==
    [][/\ (IsSome(currentTetrimino) /\ IsSome(currentTetrimino')) =>
             Get(currentTetrimino').piece >= Cur.piece
       /\ locks' = locks + 1 =>
             /\ currentTetrimino' = nextTetrimino
             /\ Get(currentTetrimino').position = Position(4, 0)
             /\ Get(currentTetrimino').rotation = 0
             /\ Get(currentTetrimino').piece > Cur.piece
             /\ generated' = generated + 1
             /\ IsSome(nextTetrimino')
             /\ Get(nextTetrimino').piece = generated'
             /\ Get(nextTetrimino').position = Position(4, 0)
             /\ Get(nextTetrimino').rotation = 0]_vars

\* A piece that was next is current after a lock made during play.
C8_Witness ==
    /\ locks = 1
    /\ gameState = "Running"
    /\ Cur.piece = generated - 1
    /\ Nxt.piece = generated
    /\ Cur.type # "I"

\* The filled cells of g.
Filled(g) ==
    Cardinality({p \in (0..(width - 1)) \X (0..(height - 1)) : g.cells[p[2]][p[1]] # 0})

\* {0,100,300,500,800}[k]
LineScore(k) == <<0, 100, 300, 500, 800>>[k + 1]

C10_NoFullRow ==
    \A y \in 0..(height - 1) : \E x \in 0..(width - 1) : grid.cells[y][x] = 0

\* Four lines were cleared by one lock.
C10_Witness ==
    /\ locks = 1
    /\ score = 800
    /\ Filled(grid) = 0

----------------------------------------------------------------------------
(* Properties of a lock, stated on what lockTetrimino() does to the       *)
(* engine of the current state with the piece where hardDrop() leaves it. *)

\* The engine with the current piece at its landing position.
Landed == [Eng EXCEPT !.currentTetrimino = Some(dropWhileValid(Eng, Cur))]

\* The engine after the first statement of lockTetrimino(): the power-up
\* effect or the placement.
BeforeClear(e) ==
    With(Get(e.currentTetrimino), LAMBDA tetrimino :
        CASE tetrimino.powerUp = "BOMB" -> applyBombEffect(e, tetrimino)
          [] tetrimino.powerUp = "LINE_CLEAR" -> applyLineClearEffect(e, tetrimino)
          [] OTHER -> [e EXCEPT !.grid = place(e.grid, tetrimino)])

\* The completely filled rows of the cells c.
FullRows(c) == {y \in 0..(height - 1) : \A x \in 0..(width - 1) : c[y][x] # 0}

\* The cells c with the rows in gone deleted, the other rows moved down in
\* their order and as many empty rows added at the top.
Without(c, gone) ==
    [y \in 0..(height - 1) |->
        IF y < Cardinality(gone) THEN [x \in 0..(width - 1) |-> 0]
        ELSE c[CHOOSE r \in (0..(height - 1)) \ gone :
                  Cardinality({q \in (0..(height - 1)) \ gone : q < r})
                      = y - Cardinality(gone)]]

\* C11: clearLines() returns the number of rows that were completely filled
\* when it was called and leaves the grid with exactly those rows deleted, the
\* other rows in their order moved down and as many empty rows at the top.
C11_ClearLines ==
    IsSome(currentTetrimino) =>
        \E g \in {BeforeClear(Landed).grid} : \E full \in {FullRows(g.cells)} :
            \A orb \in OrbDraws : \E cl \in {clearLines(g, orb)} :
                /\ cl.linesCleared = Cardinality(full)
                /\ cl.g.cells = Without(g.cells, full)

\* The piece lands completing two rows below rows that hold blocks.
C11_Witness ==
    /\ gameState = "Running"
    /\ IsSome(currentTetrimino)
    /\ \E g \in {BeforeClear(Landed).grid} :
          /\ Cardinality(FullRows(g.cells)) = 2
          /\ \E y \in 0..(height - 1) :
                /\ y \notin FullRows(g.cells)
                /\ \E x \in 0..(width - 1) : g.cells[y][x] # 0

\* The product of the multipliers of the first k orbs of g that lie in a row
\* of rows, each orb taken once.
RECURSIVE OrbProduct(_, _, _)
OrbProduct(g, rows, k) ==
    IF k = 0 THEN 1
    ELSE OrbProduct(g, rows, k - 1) *
            (IF g.orbs[k].position.y \in rows THEN g.orbs[k].multiplier ELSE 1)

\* C12: the totalMultiplier clearLines() returns is the product of the
\* multipliers of the orbs in the rows that were completed, each orb counted
\* once (1 when there is none), also when adjacent rows are completed.
C12_TotalMultiplier ==
    IsSome(currentTetrimino) =>
        \E g \in {BeforeClear(Landed).grid} : \A orb \in OrbDraws :
            clearLines(g, orb).totalMultiplier
                = OrbProduct(g, FullRows(g.cells), Len(g.orbs))


\* C13: with the active multiplier at 1, a lock that clears exactly one line
\* holding exactly one orb of multiplier m adds 100 * m points for the line,
\* makes m the active multiplier and stores the expiry now + 10 seconds.
C13_OneOrbOneLine ==
    (IsSome(currentTetrimino) /\ multiplier = 1) =>
        \E e0 \in {Landed} : \E e1 \in {BeforeClear(e0)} :
        \E full \in {FullRows(e1.grid.cells)} :
        \E hit \in {{k \in 1..Len(e1.grid.orbs) : e1.grid.orbs[k].position.y \in full}} :
            (Cardinality(full) = 1 /\ Cardinality(hit) = 1) =>
                \A k \in hit : \A rnd \in Draws : \E r \in {lockTetrimino(e0, rnd, now)} :
                    /\ e1.grid.orbs[k].multiplier \in {2, 3, 5}
                    /\ r.score = e1.score + 100 * e1.grid.orbs[k].multiplier
                    /\ r.multiplier = e1.grid.orbs[k].multiplier
                    /\ r.multiplierEndTime = now + 10000

\* A lock cleared one line with a MEDIUM orb: 300 points and multiplier 3.
C13_Witness ==
    /\ locks = 1
    /\ score = 100 * 3
    /\ multiplier = 3
    /\ multiplierEndTime = now + multiplierDuration
    /\ Filled(grid) = 3 + 3

\* C14: in every reachable state every orb is on an empty cell.
C14_OrbsOnEmptyCells ==
    \A k \in 1..Len(grid.orbs) :
        grid.cells[grid.orbs[k].position.y][grid.orbs[k].position.x] = 0

\* C15: in every reachable state no two orbs are on the same cell.
C15_OrbsApart ==
    \A j, k \in 1..Len(grid.orbs) :
        j # k => grid.orbs[j].position # grid.orbs[k].position

\* C16: in every reachable state the grid holds at most 4 orbs, and so does
\* the grid clearLines() would leave at the next lock, whatever it draws.
C16_AtMostFourOrbs ==
    /\ Len(grid.orbs) <= 4
    /\ IsSome(currentTetrimino) =>
          \E g \in {BeforeClear(Landed).grid} : \A orb \in OrbDraws :
              Len(clearLines(g, orb).g.orbs) <= 4

\* Four orbs on the grid after a lock that collected none.
C16_Witness ==
    /\ locks = 1
    /\ Len(grid.orbs) = 4
    /\ multiplier = 1

\* C17: in every reachable state every orb lies inside the grid in rows
\* 4..19, and so it does on the grid clearLines() would leave at the next lock.
C17_OrbRows ==
    /\ \A k \in 1..Len(grid.orbs) :
          /\ grid.orbs[k].position.x \in 0..9
          /\ grid.orbs[k].position.y \in 4..19
    /\ IsSome(currentTetrimino) =>
          \E g \in {BeforeClear(Landed).grid} : \A orb \in OrbDraws :
              \E o \in {clearLines(g, orb).g.orbs} : \A k \in 1..Len(o) :
                  /\ o[k].position.x \in 0..9
                  /\ o[k].position.y \in 4..19

\* A lock cleared rows and moved several orbs down to the bottom row.
C17_Witness ==
    /\ locks = 1
    /\ Cardinality({k \in 1..Len(grid.orbs) : grid.orbs[k].position.y = 19}) >= 2

\* |a - b| <= 1
Near(a, b) == a - b \in {-1, 0, 1}

C21_ExpiredNoStack ==
    (/\ gameState = "Running"
     /\ IsSome(currentTetrimino)
     /\ multiplierEndTime > 0
     /\ now > multiplierEndTime) =>
        \E e0 \in {Landed} : \E g \in {BeforeClear(e0).grid} :
            \A rnd \in Draws :
                \E cl \in {clearLines(g, rnd.orb)} :
                    lockTetrimino(e0, rnd, now).multiplier =
                        IF cl.linesCleared > 0 THEN cl.totalMultiplier ELSE 1

\* C22: pauseGame() changes only gameState and only from Running (to Paused),
\* resumeGame() changes only gameState and only from Paused (to Running), each
\* is a no-op in every other state, and pauseGame() followed by resumeGame()
\* gives back the engine as it was before the pause.
C22_PauseResume ==
    \E e \in {Eng} :
        /\ pauseGame(e) =
              IF gameState = "Running" THEN [e EXCEPT !.gameState = "Paused"] ELSE e
        /\ resumeGame(e) =
              IF gameState = "Paused" THEN [e EXCEPT !.gameState = "Running"] ELSE e
        /\ vmPauseGame(e).e = pauseGame(e)
        /\ vmResumeGame(e).e = resumeGame(e)
        /\ gameState = "Running" => resumeGame(pauseGame(e)) = e

\* A game paused while a piece is falling with the multiplier running.
C22_Witness ==
    /\ gameState = "Paused"
    /\ IsSome(currentTetrimino)
    /\ multiplier = 5
    /\ multiplierEndTime > 0
    /\ now > ClockStart

\* The engine r differs from the engine e at most in the current tetrimino,
\* which is to, and in the ghost position.
OnlyPiece(e, r, to) ==
    r = [e EXCEPT !.currentTetrimino = Some(to), !.ghostPosition = r.ghostPosition]

\* C23: a moveLeft, moveRight or rotate that succeeds changes the current
\* piece (x - 1, x + 1, or rotation (rotation + 1) mod 4 at the same position)
\* and the ghost position and nothing else; one that changes anything succeeded.
C23_MoveFrame ==
    (gameState = "Running" /\ IsSome(currentTetrimino)) =>
        \E e \in {Eng} : \E t \in {Cur} :
        \E l \in {[t EXCEPT !.position = Position(t.position.x - 1, t.position.y)]} :
        \E r \in {[t EXCEPT !.position = Position(t.position.x + 1, t.position.y)]} :
        \E o \in {[t EXCEPT !.rotation = (t.rotation + 1) % 4]} :
            /\ IF isValidMove(e, l) THEN OnlyPiece(e, vmMoveLeft(e).e, l)
                                    ELSE vmMoveLeft(e).e = e
            /\ IF isValidMove(e, r) THEN OnlyPiece(e, vmMoveRight(e).e, r)
                                    ELSE vmMoveRight(e).e = e
            /\ IF isValidMove(e, o) THEN OnlyPiece(e, vmRotate(e).e, o)
                                    ELSE vmRotate(e).e = e

\* A piece that was rotated and moved to the left over a grid with blocks and
\* an orb, before any lock.
C23_Witness ==
    /\ gameState = "Running"
    /\ locks = 0
    /\ IsSome(currentTetrimino)
    /\ Cur.rotation = 1
    /\ Cur.position.x = spawnX - 2
    /\ Filled(grid) > 0
    /\ Len(grid.orbs) > 0
    /\ score > 0

\* C24: in a Running state a moveLeft() that succeeds is undone by the next
\* moveRight(), which succeeds and gives back the current piece and the ghost
\* position; the same holds for moveRight() followed by moveLeft().
C24_RoundTrip ==
    (gameState = "Running" /\ IsSome(currentTetrimino)) =>
        \E e \in {Eng} :
        \E l \in {vmMoveLeft(e).e} : \E r \in {vmMoveRight(e).e} :
            /\ l # e =>
                  \E back \in {vmMoveRight(l).e} :
                      /\ back # l
                      /\ back.currentTetrimino = currentTetrimino
                      /\ back.ghostPosition = ghostPosition
            /\ r # e =>
                  \E back \in {vmMoveLeft(r).e} :
                      /\ back # r
                      /\ back.currentTetrimino = currentTetrimino
                      /\ back.ghostPosition = ghostPosition

\* An upright piece beside the wall's upright I, moved to the right and
\* free to move back.
C24_Witness ==
    /\ gameState = "Running"
    /\ locks = 0
    /\ IsSome(currentTetrimino)
    /\ Cur.position.x > spawnX
    /\ Cur.rotation = 1
    /\ Filled(grid) > 0
    /\ \E e \in {Eng} : vmMoveLeft(e).e # e

\* The side of the square the shapes of a type are drawn in.
Box(type) == CASE type = "I" -> 4 [] type = "O" -> 2 [] OTHER -> 3

\* C25: for each of the seven types and each rotation 0..3, getBlocks() of a
\* tetrimino returns exactly 4 distinct positions, each inside the type's
\* bounding box counted from the tetrimino's position.
C25_GetBlocks ==
    IsSome(currentTetrimino) =>
        \A type \in {"I", "O", "T", "L", "J", "S", "Z"} : \A rot \in 0..3 :
            \E t \in {[Cur EXCEPT !.type = type, !.rotation = rot]} :
            \E b \in {getBlocks(t)} :
                /\ Len(b) = 4
                /\ Cardinality({b[k] : k \in 1..Len(b)}) = 4
                /\ \A k \in 1..Len(b) :
                      /\ b[k].x - t.position.x \in 0..(Box(type) - 1)
                      /\ b[k].y - t.position.y \in 0..(Box(type) - 1)

\* An S piece turned to its fourth rotation and moved away from the spawn
\* column.
C25_Witness ==
    /\ gameState = "Running"
    /\ IsSome(currentTetrimino)
    /\ Cur.type = "S"
    /\ Cur.rotation = 3
    /\ Cur.position.x # spawnX

\* The rolls, in hundredths, of the float drawn by shouldGeneratePowerUp().
Rolls == 0..99

\* C26: the chance that a newly generated tetrimino receives a power-up is
\* 5% at level 1, one percentage point more per further level, and at most
\* 15%: of the 100 rolls, that many give the generated tetrimino a power-up.
C26_PowerUpChance ==
    \E e \in {Eng} :
        Cardinality({roll \in Rolls :
            generateRandomTetrimino(e, [type |-> "T", roll |-> roll,
                                        powerUp |-> "BOMB"]).powerUp # NoPowerUp})
            = IF 5 + (level - 1) > 15 THEN 15 ELSE 5 + (level - 1)

\* C27: the score is non-negative in every reachable state, and no lock of a
\* running game lowers it (only startGame() sets it back).
C27_Score ==
    /\ score >= 0
    /\ (gameState = "Running" /\ IsSome(currentTetrimino)) =>
          \E e0 \in {Landed} :
              \A rnd \in Draws : lockTetrimino(e0, rnd, now).score >= score

\* C28: when the spawn that ends a lock finds that the new current piece
\* cannot be placed and sets GameOver, the ghost position is the one from
\* before the spawn.
C28_GameOverGhost ==
    (gameState = "Running" /\ IsSome(currentTetrimino)) =>
        \E e0 \in {Landed} :
            \A rnd \in Draws : \E r \in {lockTetrimino(e0, rnd, now)} :
                r.gameState = "GameOver" => r.ghostPosition = ghostPosition

\* C29: startGame() renews the piece queue: the current and the next
\* tetrimino after it are both generated by this call, none of them is a
\* tetrimino generated before it.
C29_FreshQueue ==
    \E e \in {Eng} :
        \A rnd \in StartDraws : \E r \in {vmStartGame(e, rnd).e} :
            /\ IsSome(r.currentTetrimino)
            /\ IsSome(r.nextTetrimino)
            /\ Get(r.currentTetrimino).piece > generated
            /\ Get(r.nextTetrimino).piece > generated

\* The orbs of the grid g outside the rows in gone, each moved down by the
\* number of rows of gone below it.
Survivors(g, gone) ==
    With(SelectSeq(g.orbs, LAMBDA o : o.position.y \notin gone), LAMBDA kept :
        [k \in 1..Len(kept) |->
            [kept[k] EXCEPT !.position.y =
                @ + Cardinality({r \in gone : r > kept[k].position.y})]])

\* C30: clearLines() removes exactly the orbs whose row was complete when it
\* was called; every other orb stays, with its multiplier and type, moved
\* down by the number of cleared rows that were below it (no orb is spawned
\* by the draw considered here).
C30_OrbsKept ==
    IsSome(currentTetrimino) =>
        \E g \in {BeforeClear(Landed).grid} :
            clearLines(g, NoOrb).g.orbs = Survivors(g, FullRows(g.cells))

\* C31: the number of orbs on the grid grows only in a lock that clears at
\* least one line; a lock that clears no line adds no orb.
C31_OrbAfterClear ==
    (gameState = "Running" /\ IsSome(currentTetrimino)) =>
        \E e0 \in {Landed} : \E g \in {BeforeClear(e0).grid} :
            \A rnd \in Draws :
                Len(lockTetrimino(e0, rnd, now).grid.orbs) > Len(grid.orbs) =>
                    clearLines(g, rnd.orb).linesCleared > 0

\* C32: the clearLines() of every lock clears at most 4 lines, whatever the
\* piece and its power-up, so the scoring table yields 0 base points only for
\* 0 lines.
C32_AtMostFourLines ==
    (gameState = "Running" /\ IsSome(currentTetrimino)) =>
        \E g \in {BeforeClear(Landed).grid} :
            \A orb \in OrbDraws : \E n \in {clearLines(g, orb).linesCleared} :
                /\ n \in 0..4
                /\ basePoints(n) = 0 <=> n = 0

\* A lock that cleared four lines at once; the S drawn before it is current.
C32_Witness ==
    /\ locks = 1
    /\ score = 800
    /\ IsSome(currentTetrimino)
    /\ Cur.type = "S"
    /\ Cur.position = Position(spawnX, spawnY)

\* The tetrimino t has a block on the bottom row.
OnFloor(t) == \E p \in Range(getBlocks(t)) : p.y = height - 1

\* C33: a GHOST piece is stopped by the grid boundary only: moveDown() locks
\* it exactly when one of its blocks is on row 19 and moves it down otherwise,
\* hardDrop() locks it with a block on row 19, whatever cells are filled, and
\* the lock writes the piece into the cells it covers and into no other cell.
C33_GhostFalls ==
    (gameState = "Running" /\ IsSome(currentTetrimino) /\ Cur.powerUp = "GHOST") =>
        \E e \in {Eng} : \E e0 \in {Landed} :
        \E b \in {Range(getBlocks(Get(e0.currentTetrimino)))} :
        \E placed \in {BeforeClear(e0).grid.cells} :
            /\ \A rnd \in LockDraws(WouldLock(TRUE)) :
                  \E out \in {vmSoftDrop(e, rnd, now)} :
                      /\ out.locked <=> OnFloor(Cur)
                      /\ ~out.locked =>
                            out.e.currentTetrimino = Some(TmoveDown(Cur))
            /\ OnFloor(Get(e0.currentTetrimino))
            /\ Get(e0.currentTetrimino).position.x = Cur.position.x
            /\ \A y \in 0..(height - 1) : \A x \in 0..(width - 1) :
                  IF Position(x, y) \in b
                  THEN placed[y][x] # 0
                       /\ \A q \in b : placed[q.y][q.x] = placed[y][x]
                  ELSE placed[y][x] = grid.cells[y][x]

\* A GHOST piece locked on the bottom row over cells of the wall: the grid
\* holds fewer cells than the wall and the piece together, in two colours.
C33_Witness ==
    /\ locks = 1
    /\ score = 0
    /\ Filled(grid) \in 13..15
    /\ \E x \in 0..(width - 1) : grid.cells[height - 1][x] >= 2

\* C34: while the game is Running or Paused every block of the current
\* tetrimino is inside the grid, in columns 0..9 and rows 0..19, and, unless
\* the piece carries GHOST, on an empty cell.
C34_PieceInGrid ==
    (gameState \in {"Running", "Paused"} /\ IsSome(currentTetrimino)) =>
        \A p \in Range(getBlocks(Cur)) :
            /\ p.x \in 0..9
            /\ p.y \in 0..19
            /\ Cur.powerUp # "GHOST" => grid.cells[p.y][p.x] = 0

\* A paused game with an upright piece beside filled cells, in a column
\* other than the spawn column.
C34_Witness ==
    /\ gameState = "Paused"
    /\ IsSome(currentTetrimino)
    /\ Cur.powerUp = NoPowerUp
    /\ Cur.rotation = 1
    /\ Cur.position.x = 6
    /\ Cur.position.y >= 14
    /\ Filled(grid) > 0

\* The points of the power-up effect of the landed tetrimino t, before any
\* multiplier: 500 for BOMB, 200 per distinct row for LINE_CLEAR.
EffectPoints(t) ==
    CASE t.powerUp = "BOMB" -> 500
      [] t.powerUp = "LINE_CLEAR" ->
            200 * Cardinality({p.y : p \in Range(getBlocks(t))})
      [] OTHER -> 0

\* C35: the points of a lock that starts after the stored expiry time has
\* passed are not multiplied by the expired multiplier: the lock awards the
\* effect points and the line points times the orb multipliers it collects.
C35_ExpiredNotApplied ==
    (/\ gameState = "Running"
     /\ IsSome(currentTetrimino)
     /\ multiplierEndTime > 0
     /\ now > multiplierEndTime) =>
        \E e0 \in {Landed} : \E g \in {BeforeClear(e0).grid} :
            \A rnd \in Draws : \E cl \in {clearLines(g, rnd.orb)} :
                lockTetrimino(e0, rnd, now).score =
                    score + EffectPoints(Get(e0.currentTetrimino))
                          + LineScore(cl.linesCleared) * cl.totalMultiplier

\* C36: the multiplier is at least 1 in every reachable state, it is above 1
\* exactly when an expiry time is stored, and it changes only in a step that
\* locks a piece or starts a game.
C36_Multiplier ==
    /\ [](multiplier >= 1 /\ (multiplier > 1 <=> multiplierEndTime > 0))
    /\ [][multiplier' # multiplier => (locks' = locks + 1 \/ games' = games + 1)]_vars

\* C37: at most one loop job is active at a time, whatever the order of
\* state changes, level changes and setDropSpeed calls, and the loop calls
\* moveDown only while gameState is Running.
C37_OneLoop ==
    /\ Cardinality(jobs) <= 1
    /\ moveDownAt \in {"none", "Running"}

\* The loop was restarted at another speed while a job was active, and the
\* job that replaced it has moved the piece.
C37_Witness ==
    /\ gameState = "Running"
    /\ stateSeen = "Running"
    /\ dropSpeed = 200
    /\ jobs = {1}
    /\ moveDownAt = "Running"

\* The piece of e is locked by at most n passes of the loop and nothing else.
RECURSIVE LockedWithin(_, _)
LockedWithin(e, n) ==
    /\ n > 0
    /\ \E r \in {gameLoopTick(e, AnyDraw, now)} :
          r.locked \/ LockedWithin(r.e, n - 1)

\* C38: while the game stays Running and the loop keeps making passes, a
\* piece is eventually locked, whatever moves, rotations and restarts come in
\* between (the model follows the game up to its bounds on locks and games);
\* by passes of the loop alone the current piece is locked within 20 of them;
\* and hardDrop() ends with the piece locked.
C38_FallEnds ==
    /\ (gameState = "Running" /\ Playing)
           ~> (locks = MaxLocks \/ gameState # "Running" \/ games > MaxGames)
    /\ [](gameState = "Running" /\ Playing =>
             /\ LockedWithin(Eng, 20)
             /\ hardDrop(Eng, AnyDraw, now).locked)

\* A piece fell from the top of an empty grid and was locked on the floor.
C38_Witness ==
    /\ locks = 1
    /\ games = 1
    /\ Filled(grid) = 4
    /\ \E x \in 0..(width - 1) : grid.cells[height - 1][x] # 0

\* C39: for every upgrade type below its maximum level, a successful
\* upgrade(type) deducts the cost shown on that upgrade's button; a failed
\* upgrade changes neither the credits nor the level; the credits are never
\* negative.
C39_UpgradeCost ==
    /\ currency >= 0
    /\ \A type \in UpgradeTypes :
          \E st \in {upgrade(Shop, type)} :
             IF st.upgrades[type] # upgrades[type]
             THEN ~updateUI(Shop, type).disabled =>
                      Some(currency - st.currency) = updateUI(Shop, type).cost
             ELSE st = Shop

====
